---- MODULE Spec2Model ----
(***************************************************************************)
(* NormalForge / Auto Custom Normals: provenance tagging, mesh snapshots   *)
(* and the workflow operators of the three add-on files                    *)
(*   normalforge.py (NF), auto_custom_normals.py (ACN),                    *)
(*   non_destructive_normals.py (NDN).                                     *)
(*                                                                         *)
(* Host data (bpy.data) is modelled by what the add-ons rely on:           *)
(*   - a datablock name is a sequence of string tokens, e.g.               *)
(*     <<"Cube">>, <<"Cube", ".001">>, <<"Cube", "_ACN_Backup">>,          *)
(*     <<"_NF_Tag_", "0000000a">>; concatenation is Append;                *)
(*   - datablock names are unique per collection: a requested name that    *)
(*     is taken gets a numeric suffix (UniqueName);                        *)
(*   - material slots live on the mesh (obj.data.materials);               *)
(*   - material_index values are 0-based as in the source;                 *)
(*   - uuid.uuid4().hex[:8] yields a value not drawn before (the 2^-32     *)
(*     collision is left out); the draws are counted by uuidCount;         *)
(*   - bpy.ops.object.material_slot_remove() removes the active slot and   *)
(*     leaves the faces' material_index alone.                             *)
(***************************************************************************)
EXTENDS Integers, Sequences, FiniteSets, TLC

VARIABLES
    addon,      \* which add-on file is loaded: "NF", "ACN" or "NDN"
    materials,  \* bpy.data.materials: the set of material names
    meshes,     \* bpy.data.meshes: mesh name -> mesh content
    objData,    \* obj.data: object -> name of its live mesh
    objKey,     \* obj[NF_BACKUP_KEY] / obj[ACN_BACKUP_KEY]: object -> name or None
    uuidCount,  \* number of uuid.uuid4() draws so far
    last,       \* the last call made and what it returned (observation)
    created,    \* object -> content of its mesh when create_mesh_backup last ran
    tokens,     \* the tokens begin returned whose end has not run, in order
    issued,     \* every tag name begin has returned so far
    edits,      \* number of edits other code has made to the meshes
    modifiers,  \* object -> number of BEVEL modifiers in its modifier stack
    runs,       \* number of workflow operators started so far
    pc,         \* the running workflow operator and where it stands
    mesh_select_mode,  \* tool_settings.mesh_select_mode: (vertex, edge, face)
    cls,        \* the locals of a running detect_bevel_faces, None when none runs
    synth       \* the mesh and the loop normals of a weighted-normal call

vars == <<addon, materials, meshes, objData, objKey, uuidCount, last, created, tokens, issued, edits,
          modifiers, runs, pc, mesh_select_mode, cls, synth>>

(***************************************************************************)
(* Bounds of the model.                                                    *)
(***************************************************************************)
MaxSlots == 2      \* material slots of a mesh in the initial state
MaxUuid == 2       \* uuid draws in one behaviour
NumFaces == 2      \* faces of a mesh in the initial state
MaxEdits == 2      \* edits by other code (painting, slot changes) in one behaviour
MaxGeom == 1       \* geometry versions 0..MaxGeom a live mesh can be edited to
MaxRuns == 1       \* workflow operators started in one behaviour
NumEdges == 2      \* edges of a mesh
ClsFaces == 4      \* faces of a mesh given to detect_bevel_faces
MaxRenames == 1    \* renames of a mesh by the user in one behaviour
MaxArea == 2       \* largest face area of a mesh given to the normal synthesizer

Objects == {"Cube", "Plane"}
Addons == {"NF", "ACN", "NDN"}
UserMaterials == <<(<<"MatA">>), (<<"MatB">>), (<<"MatC">>), (<<"MatD">>)>>
UuidHex == <<"0000000a", "0000000b", "0000000c", "0000000d",
            "0000000e", "0000000f", "00000010", "00000011">>

ExtraMaterial == <<"MatX">>
AllUserMaterials == {UserMaterials[i] : i \in DOMAIN UserMaterials} \cup {ExtraMaterial}

None == <<>>

(***************************************************************************)
(* Program constants.                                                      *)
(***************************************************************************)
NF_BACKUP_KEY == "nf_backup_mesh"
ACN_BACKUP_KEY == "acn_backup_mesh"
ACN_MATERIAL_NAME == <<"_ACN_BevelTag">>
ACN_BACKUP_SUFFIX == "_ACN_Backup"
NF_DEFAULT_NAME == <<"_NF_Default">>
DEFAULT_ANGLE == 30      \* 0.523599 rad, in degrees

(***************************************************************************)
(* Host: unique datablock names.                                           *)
(***************************************************************************)
NumSuffix == <<".001", ".002", ".003", ".004", ".005", ".006", ".007", ".008">>

IsNumSuffix(tok) == \E k \in DOMAIN NumSuffix : tok = NumSuffix[k]

Stem(name) ==
    IF Len(name) > 1 /\ IsNumSuffix(name[Len(name)])
    THEN SubSeq(name, 1, Len(name) - 1)
    ELSE name

\* The name a datablock gets when `name` is requested and `used` are taken.
UniqueName(name, used) ==
    IF name \notin used
    THEN name
    ELSE LET k == CHOOSE k \in DOMAIN NumSuffix :
                      /\ Append(Stem(name), NumSuffix[k]) \notin used
                      /\ \A j \in 1..(k - 1) : Append(Stem(name), NumSuffix[j]) \in used
         IN Append(Stem(name), NumSuffix[k])

\* bpy.data.materials.remove(mat): the material goes, slots using it go empty.
materials_remove(D, mat) ==
    [n \in DOMAIN D |->
        [D[n] EXCEPT !.materials =
            [i \in DOMAIN D[n].materials |->
                IF D[n].materials[i] = mat THEN None ELSE D[n].materials[i]]]]

\* mat.users: the slots that reference the material.
users(D, mat) ==
    Cardinality({<<n, i>> \in UNION {{<<m, j>> : j \in DOMAIN D[m].materials} : m \in DOMAIN D} :
                    D[n].materials[i] = mat})

\* bpy.ops.object.material_slot_remove() with active_material_index = t.
material_slot_remove(slots, t) ==
    [i \in 1..(Len(slots) - 1) |-> IF i <= t THEN slots[i] ELSE slots[i + 1]]

\* for i, slot in enumerate(obj.material_slots): first i whose material is
\* named `name`; -1 stands for Python's None.
find_slot(slots, name) ==
    IF \E i \in DOMAIN slots : slots[i] # None /\ slots[i] = name
    THEN (CHOOSE i \in DOMAIN slots :
              /\ slots[i] # None /\ slots[i] = name
              /\ \A j \in 1..(i - 1) : ~(slots[j] # None /\ slots[j] = name)) - 1
    ELSE -1

\* The face loop of cleanup_tag_material.
renumber_faces(faces, t) ==
    [f \in DOMAIN faces |->
        IF faces[f] = t THEN 0
        ELSE IF faces[f] > t THEN faces[f] - 1
        ELSE faces[f]]

(***************************************************************************)
(* ProvenanceTagger: begin.  Each operator takes the material store M, the *)
(* mesh store D and the name n of the object's mesh, and returns the new   *)
(* stores with the values the function returns.                            *)
(***************************************************************************)

\* normalforge.py create_unique_tag_material(obj); hex is uuid4().hex[:8].
NF_create_unique_tag_material(M, D, n, hex) ==
    LET needDefault == Len(D[n].materials) = 0
        default_mat == UniqueName(NF_DEFAULT_NAME, M)
        M1 == IF needDefault THEN M \cup {default_mat} ELSE M
        s1 == IF needDefault THEN <<default_mat>> ELSE D[n].materials
        tag_name == <<"_NF_Tag_", hex>>
        mat == UniqueName(tag_name, M1)
        s2 == Append(s1, mat)
    IN [materials |-> M1 \cup {mat},
        meshes |-> [D EXCEPT ![n].materials = s2],
        tag_slot_index |-> Len(s2) - 1,
        tag_name |-> tag_name]

\* auto_custom_normals.py create_unique_tag_material(obj).
ACN_create_unique_tag_material(M, D, n, hex) ==
    LET tag_name == <<"_ACN_Tag_", hex>>
        mat == UniqueName(tag_name, M)
        s2 == Append(D[n].materials, mat)
    IN [materials |-> M \cup {mat},
        meshes |-> [D EXCEPT ![n].materials = s2],
        tag_slot_index |-> Len(s2) - 1,
        tag_name |-> tag_name]

\* non_destructive_normals.py get_or_create_tag_material().
get_or_create_tag_material(M) == M \cup {ACN_MATERIAL_NAME}

\* non_destructive_normals.py setup_material_tagging(obj): the token is the
\* fixed name ACN_MATERIAL_NAME.
NDN_setup_material_tagging(M, D, n) ==
    LET M1 == get_or_create_tag_material(M)
        found == find_slot(D[n].materials, ACN_MATERIAL_NAME)
        s2 == IF found = -1 THEN Append(D[n].materials, ACN_MATERIAL_NAME)
              ELSE D[n].materials
    IN [materials |-> M1,
        meshes |-> [D EXCEPT ![n].materials = s2],
        tag_slot_index |-> IF found = -1 THEN Len(s2) - 1 ELSE found,
        tag_name |-> ACN_MATERIAL_NAME]

(***************************************************************************)
(* ProvenanceTagger: end.                                                  *)
(***************************************************************************)

\* The block under `if tag_index is not None:` (and its twin for the default
\* slot): renumber the faces, then remove slot t.
remove_slot_renumbering(mesh, t) ==
    IF t = -1 THEN mesh
    ELSE [mesh EXCEPT !.faces = renumber_faces(mesh.faces, t),
                      !.materials = material_slot_remove(mesh.materials, t)]

\* mat = bpy.data.materials.get(name); if mat: bpy.data.materials.remove(mat)
remove_material_named(M, D, name) ==
    IF name \in M
    THEN [materials |-> M \ {name}, meshes |-> materials_remove(D, name)]
    ELSE [materials |-> M, meshes |-> D]

\* A cleanup that takes the tag to be the last slot instead of looking the
\* token up.
ACN_cleanup_last_slot(M, D, n, tag_name) ==
    LET tag_index == Len(D[n].materials) - 1
        D1 == [D EXCEPT ![n] = remove_slot_renumbering(D[n], tag_index)]
    IN remove_material_named(M, D1, tag_name)

\* auto_custom_normals.py cleanup_tag_material(obj, tag_name).
ACN_cleanup_tag_material(M, D, n, tag_name) ==
    LET tag_index == find_slot(D[n].materials, tag_name)
        D1 == [D EXCEPT ![n] = remove_slot_renumbering(D[n], tag_index)]
    IN remove_material_named(M, D1, tag_name)

\* normalforge.py cleanup_tag_material(obj, tag_name): the same, and then
\* the slot named "_NF_Default" is removed the same way.
NF_cleanup_tag_material(M, D, n, tag_name) ==
    LET tag_index == find_slot(D[n].materials, tag_name)
        D1 == [D EXCEPT ![n] = remove_slot_renumbering(D[n], tag_index)]
        r1 == remove_material_named(M, D1, tag_name)
        default_mat_index == find_slot(r1.meshes[n].materials, NF_DEFAULT_NAME)
        D2 == [r1.meshes EXCEPT ![n] = remove_slot_renumbering(r1.meshes[n], default_mat_index)]
    IN IF default_mat_index = -1
       THEN r1
       ELSE remove_material_named(r1.materials, D2, NF_DEFAULT_NAME)

\* non_destructive_normals.py cleanup_tag_material(obj): the slot goes, the
\* faces are not renumbered, the material goes when nothing uses it.
NDN_cleanup_tag_material(M, D, n) ==
    LET tag_index == find_slot(D[n].materials, ACN_MATERIAL_NAME)
        D1 == IF tag_index = -1 THEN D
              ELSE [D EXCEPT ![n].materials = material_slot_remove(D[n].materials, tag_index)]
    IN IF ACN_MATERIAL_NAME \in M /\ users(D1, ACN_MATERIAL_NAME) = 0
       THEN [materials |-> M \ {ACN_MATERIAL_NAME}, meshes |-> materials_remove(D1, ACN_MATERIAL_NAME)]
       ELSE [materials |-> M, meshes |-> D1]

\* begin and end of the loaded add-on.
begin(a, M, D, n, hex) ==
    CASE a = "NF" -> NF_create_unique_tag_material(M, D, n, hex)
      [] a = "ACN" -> ACN_create_unique_tag_material(M, D, n, hex)
      [] a = "NDN" -> NDN_setup_material_tagging(M, D, n)

end(a, M, D, n, tag_name) ==
    CASE a = "NF" -> NF_cleanup_tag_material(M, D, n, tag_name)
      [] a = "ACN" -> ACN_cleanup_tag_material(M, D, n, tag_name)
      [] a = "NDN" -> NDN_cleanup_tag_material(M, D, n)

(***************************************************************************)
(* SnapshotStore.  Each operator takes the mesh store D, the objects' mesh *)
(* names A (obj.data), the objects' backup keys K and the object o.        *)
(***************************************************************************)

\* bpy.data.meshes.remove(bpy.data.meshes.get(name)) when there is one.
meshes_remove(D, name) == [n \in DOMAIN D \ {name} |-> D[n]]

\* mesh.copy() followed by copy.name = name: a new datablock with the
\* content of src under the name the host grants.
meshes_copy_as(D, src, name) ==
    LET granted == UniqueName(name, DOMAIN D)
    IN [n \in DOMAIN D \cup {granted} |-> IF n = granted THEN D[src] ELSE D[n]]

\* A create that leaves an existing snapshot in place and returns.
NF_create_keeping_old(D, A, K, o, hex) ==
    LET old_backup_name == K[o]
        backup_name == <<".nf_backup_", hex>>
    IN IF old_backup_name # None /\ old_backup_name \in DOMAIN D
       THEN [meshes |-> D, objData |-> A, objKey |-> K]
       ELSE [meshes |-> meshes_copy_as(D, A[o], backup_name),
             objData |-> A,
             objKey |-> [K EXCEPT ![o] = backup_name]]

\* A create that does not destroy the old snapshot.
NF_create_without_remove(D, A, K, o, hex) ==
    LET backup_name == <<".nf_backup_", hex>>
    IN [meshes |-> meshes_copy_as(D, A[o], backup_name),
        objData |-> A,
        objKey |-> [K EXCEPT ![o] = backup_name]]

\* normalforge.py create_mesh_backup(obj); hex is uuid4().hex[:8].
NF_create_mesh_backup(D, A, K, o, hex) ==
    LET old_backup_name == K[o]
        D1 == IF old_backup_name # None /\ old_backup_name \in DOMAIN D
              THEN meshes_remove(D, old_backup_name) ELSE D
        backup_name == <<".nf_backup_", hex>>
    IN [meshes |-> meshes_copy_as(D1, A[o], backup_name),
        objData |-> A,
        objKey |-> [K EXCEPT ![o] = backup_name]]

\* auto_custom_normals.py create_mesh_backup(obj).
ACN_create_mesh_backup(D, A, K, o, hex) ==
    LET old_backup_name == K[o]
        D1 == IF old_backup_name # None /\ old_backup_name \in DOMAIN D
              THEN meshes_remove(D, old_backup_name) ELSE D
        backup_name == <<".acn_backup_", hex>>
    IN [meshes |-> meshes_copy_as(D1, A[o], backup_name),
        objData |-> A,
        objKey |-> [K EXCEPT ![o] = backup_name]]

\* non_destructive_normals.py create_mesh_backup(obj): the backup is named
\* after the live mesh.
NDN_create_mesh_backup(D, A, K, o) ==
    LET backup_name == Append(A[o], ACN_BACKUP_SUFFIX)
        D1 == IF backup_name \in DOMAIN D THEN meshes_remove(D, backup_name) ELSE D
    IN [meshes |-> meshes_copy_as(D1, A[o], backup_name),
        objData |-> A,
        objKey |-> K]

\* normalforge.py / auto_custom_normals.py has_backup(obj).
NF_has_backup(D, A, K, o) == K[o] # None /\ K[o] \in DOMAIN D

\* non_destructive_normals.py has_backup(obj).
NDN_has_backup(D, A, K, o) == Append(A[o], ACN_BACKUP_SUFFIX) \in DOMAIN D

\* A restore that keeps the backup and its key.
NF_restore_keeping_backup(D, A, K, o) ==
    LET backup_name == K[o]
    IN IF backup_name = None \/ backup_name \notin DOMAIN D
       THEN [ret |-> FALSE, meshes |-> D, objData |-> A, objKey |-> K]
       ELSE LET granted == UniqueName(A[o], DOMAIN D)
                D1 == meshes_copy_as(D, backup_name, A[o])
            IN [ret |-> TRUE,
                meshes |-> meshes_remove(D1, A[o]),
                objData |-> [A EXCEPT ![o] = granted],
                objKey |-> K]

\* A restore that throws the live mesh away before it looks for the backup.
NF_restore_removing_first(D, A, K, o) ==
    LET backup_name == K[o]
    IN IF backup_name = None \/ backup_name \notin DOMAIN D
       THEN [ret |-> FALSE, meshes |-> meshes_remove(D, A[o]), objData |-> A, objKey |-> K]
       ELSE LET granted == UniqueName(A[o], DOMAIN D)
                D1 == meshes_copy_as(D, backup_name, A[o])
            IN [ret |-> TRUE,
                meshes |-> meshes_remove(meshes_remove(D1, A[o]), backup_name),
                objData |-> [A EXCEPT ![o] = granted],
                objKey |-> [K EXCEPT ![o] = None]]

\* normalforge.py / auto_custom_normals.py restore_mesh_backup(obj).
NF_restore_mesh_backup(D, A, K, o) ==
    LET backup_name == K[o]
    IN IF backup_name = None \/ backup_name \notin DOMAIN D
       THEN [ret |-> FALSE, meshes |-> D, objData |-> A, objKey |-> K]
       ELSE LET granted == UniqueName(A[o], DOMAIN D)
                D1 == meshes_copy_as(D, backup_name, A[o])
            IN [ret |-> TRUE,
                meshes |-> meshes_remove(meshes_remove(D1, A[o]), backup_name),
                objData |-> [A EXCEPT ![o] = granted],
                objKey |-> [K EXCEPT ![o] = None]]

\* non_destructive_normals.py restore_mesh_backup(obj).
NDN_restore_mesh_backup(D, A, K, o) ==
    LET name == A[o]
        backup_name == IF name[Len(name)] = ACN_BACKUP_SUFFIX THEN name
                       ELSE Append(name, ACN_BACKUP_SUFFIX)
        backup_name2 == IF backup_name \in DOMAIN D THEN backup_name
                        ELSE Append(name, ACN_BACKUP_SUFFIX)
    IN IF backup_name2 \notin DOMAIN D
       THEN [ret |-> FALSE, meshes |-> D, objData |-> A, objKey |-> K]
       ELSE LET granted == UniqueName(name, DOMAIN D)
                D1 == meshes_copy_as(D, backup_name2, name)
                D2 == meshes_remove(D1, name)
            IN [ret |-> TRUE,
                meshes |-> IF backup_name2 \in DOMAIN D2 THEN meshes_remove(D2, backup_name2) ELSE D2,
                objData |-> [A EXCEPT ![o] = granted],
                objKey |-> K]

\* create, exists and restore of the loaded add-on.
create_mesh_backup(a, D, A, K, o, hex) ==
    CASE a = "NF" -> NF_create_mesh_backup(D, A, K, o, hex)
      [] a = "ACN" -> ACN_create_mesh_backup(D, A, K, o, hex)
      [] a = "NDN" -> NDN_create_mesh_backup(D, A, K, o)

has_backup(a, D, A, K, o) ==
    IF a = "NDN" THEN NDN_has_backup(D, A, K, o) ELSE NF_has_backup(D, A, K, o)

restore_mesh_backup(a, D, A, K, o) ==
    IF a = "NDN" THEN NDN_restore_mesh_backup(D, A, K, o)
    ELSE NF_restore_mesh_backup(D, A, K, o)

(***************************************************************************)
(* Edge-attribute propagation.  An edge is a record                        *)
(*   [smooth, seam, weight, link_faces, angle]                             *)
(* with weight in tenths (0 is 0.0, 10 is 1.0), link_faces the number of   *)
(* faces on the edge and angle the angle between the normals of its two    *)
(* faces, in degrees.                                                      *)
(***************************************************************************)

\* A condition that also takes the edges at the threshold.
at_or_above_angle(e, angle_threshold) ==
    \/ e.link_faces = 2 /\ e.angle >= angle_threshold
    \/ e.link_faces = 1

\* The condition under which the angle loops weight an edge.
above_angle(e, angle_threshold) ==
    \/ e.link_faces = 2 /\ e.angle > angle_threshold
    \/ e.link_faces = 1

\* An angle propagator that writes half weights.
edges_by_angle_half(edges, angle_threshold) ==
    [edges |-> [i \in DOMAIN edges |->
                   IF above_angle(edges[i], angle_threshold)
                   THEN [edges[i] EXCEPT !.weight = 5]
                   ELSE edges[i]],
     count |-> Cardinality({i \in DOMAIN edges : above_angle(edges[i], angle_threshold)})]

\* normalforge.py edges_by_angle(bm, angle_threshold).
edges_by_angle(edges, angle_threshold) ==
    [edges |-> [i \in DOMAIN edges |->
                   IF above_angle(edges[i], angle_threshold)
                   THEN [edges[i] EXCEPT !.weight = 10]
                   ELSE edges[i]],
     count |-> Cardinality({i \in DOMAIN edges : above_angle(edges[i], angle_threshold)})]

\* A prepare_bevel_weights that counts an edge as weighted only at weight 1.0.
prepare_counting_full_only(mesh, source, angle_threshold) ==
    LET weighted == Cardinality({i \in DOMAIN mesh.edges : mesh.edges[i].weight = 10})
        zeroed == [i \in DOMAIN mesh.edges |-> [mesh.edges[i] EXCEPT !.weight = 0]]
        r == CASE source = "BEVEL_WEIGHT" /\ weighted > 0 ->
                      [edges |-> mesh.edges, count |-> weighted]
               [] source = "BEVEL_WEIGHT" /\ weighted = 0 ->
                      edges_by_angle(mesh.edges, angle_threshold)
               [] source = "ANGLE" ->
                      edges_by_angle(zeroed, angle_threshold)
    IN [mesh |-> [mesh EXCEPT !.edges = r.edges, !.weight_layer = TRUE],
        count |-> r.count]

\* normalforge.py prepare_bevel_weights(obj, source, angle_threshold): the
\* mesh as bm.to_mesh leaves it and the count returned.
prepare_bevel_weights(mesh, source, angle_threshold) ==
    LET weighted == Cardinality({i \in DOMAIN mesh.edges : mesh.edges[i].weight > 0})
        zeroed == [i \in DOMAIN mesh.edges |-> [mesh.edges[i] EXCEPT !.weight = 0]]
        r == CASE source = "BEVEL_WEIGHT" /\ weighted > 0 ->
                      [edges |-> mesh.edges, count |-> weighted]
               [] source = "BEVEL_WEIGHT" /\ weighted = 0 ->
                      edges_by_angle(mesh.edges, angle_threshold)
               [] source = "ANGLE" ->
                      edges_by_angle(zeroed, angle_threshold)
    IN [mesh |-> [mesh EXCEPT !.edges = r.edges, !.weight_layer = TRUE],
        count |-> r.count]

\* A sharp propagator that weights every edge.
sharp_weighting_all(edges) ==
    [edges |-> [i \in DOMAIN edges |-> [edges[i] EXCEPT !.weight = 10]],
     count |-> Cardinality({i \in DOMAIN edges : ~edges[i].smooth})]

\* A sharp propagator that clears the flag of the edges it weights.
sharp_consuming_flag(edges) ==
    [edges |-> [i \in DOMAIN edges |->
                   IF ~edges[i].smooth
                   THEN [edges[i] EXCEPT !.weight = 10, !.smooth = TRUE]
                   ELSE edges[i]],
     count |-> Cardinality({i \in DOMAIN edges : ~edges[i].smooth})]

\* auto_custom_normals.py / non_destructive_normals.py
\* sharp_edges_to_bevel_weight(bm).
sharp_edges_to_bevel_weight(edges) ==
    [edges |-> [i \in DOMAIN edges |->
                   IF ~edges[i].smooth THEN [edges[i] EXCEPT !.weight = 10] ELSE edges[i]],
     count |-> Cardinality({i \in DOMAIN edges : ~edges[i].smooth})]

\* seams_to_bevel_weight(bm).
seams_to_bevel_weight(edges) ==
    [edges |-> [i \in DOMAIN edges |->
                   IF edges[i].seam THEN [edges[i] EXCEPT !.weight = 10] ELSE edges[i]],
     count |-> Cardinality({i \in DOMAIN edges : edges[i].seam})]

\* auto_sharp_to_bevel_weight(bm, angle_threshold).
auto_sharp_to_bevel_weight(edges, angle_threshold) ==
    [edges |-> [i \in DOMAIN edges |->
                   IF above_angle(edges[i], angle_threshold)
                   THEN [edges[i] EXCEPT !.weight = 10, !.smooth = FALSE]
                   ELSE edges[i]],
     count |-> Cardinality({i \in DOMAIN edges : above_angle(edges[i], angle_threshold)})]

\* mark_seams_from_bevel_weight(bm).
mark_seams_from_bevel_weight(edges) ==
    [i \in DOMAIN edges |->
        IF edges[i].weight > 0 THEN [edges[i] EXCEPT !.seam = TRUE] ELSE edges[i]]

(***************************************************************************)
(* State shared by the specifications.                                     *)
(***************************************************************************)

\* obj.material_slots and the faces of object o.
slots_of(o) == meshes[objData[o]].materials
faces_of(o) == meshes[objData[o]].faces

\* Meshes as the host hands them over: the first k user materials in the
\* slots, and faces that use the slots in turn (face i uses slot i - 1 while
\* there is one, the last slot after that; slot 0 when the mesh has none).
InitSlots == {SubSeq(UserMaterials, 1, k) : k \in 0..MaxSlots}

InitFaces(s) ==
    [i \in 1..NumFaces |->
        IF Len(s) = 0 THEN 0 ELSE IF i - 1 < Len(s) THEN i - 1 ELSE Len(s) - 1]

\* An interior edge between two coplanar faces: smooth, no seam, no weight.
FlatEdge == [smooth |-> TRUE, seam |-> FALSE, weight |-> 0, link_faces |-> 2, angle |-> 0]

InitMeshes ==
    {[materials |-> s, faces |-> InitFaces(s), geom |-> 0,
      edges |-> [e \in 1..NumEdges |-> FlatEdge], weight_layer |-> FALSE,
      select |-> {}] : s \in InitSlots}

PlainMesh == [materials |-> <<>>, faces |-> [f \in 1..NumFaces |-> 0], geom |-> 0,
              edges |-> [e \in 1..NumEdges |-> FlatEdge], weight_layer |-> FALSE,
              select |-> {}]

NoCall == [op |-> "none"]
Idle == [at |-> "idle"]

\* The edges a mesh comes with: flat, creased at 90 degrees, flagged sharp,
\* flagged seam, on the boundary, and carrying a partial weight.
SampleEdges ==
    {FlatEdge,
     [FlatEdge EXCEPT !.angle = 90],
     [FlatEdge EXCEPT !.smooth = FALSE],
     [FlatEdge EXCEPT !.seam = TRUE],
     [FlatEdge EXCEPT !.link_faces = 1],
     [FlatEdge EXCEPT !.weight = 5]}

\* Edge lists whose first edge is a sample edge and whose other edges are flat.
SampleEdgeLists ==
    {[i \in 1..NumEdges |-> IF i = 1 THEN e ELSE FlatEdge] : e \in SampleEdges}

\* What the initial states of all specifications share.
InitRest ==
    /\ materials = {UserMaterials[k] : k \in 1..MaxSlots} \cup {ExtraMaterial}
    /\ objKey = [o \in Objects |-> None]
    /\ uuidCount = 0
    /\ last = NoCall
    /\ created = [o \in Objects |-> None]
    /\ tokens = <<>>
    /\ issued = {}
    /\ edits = 0
    /\ modifiers = [o \in Objects |-> 0]
    /\ runs = 0
    /\ pc = Idle

\* The state after the add-on is registered, with the Cube's edges drawn
\* from E: the weight layer exists when some edge carries a weight.
InitWith(E) ==
    /\ addon \in Addons
    /\ objData = [o \in Objects |-> <<o>>]
    /\ \E m \in InitMeshes, edges \in E :
          meshes = [n \in {<<o>> : o \in Objects} |->
                       IF n = <<"Cube">>
                       THEN [m EXCEPT !.edges = edges,
                                      !.weight_layer = \E i \in DOMAIN edges : edges[i].weight > 0]
                       ELSE PlainMesh]
    /\ mesh_select_mode = <<TRUE, FALSE, FALSE>>
    /\ cls = None
    /\ synth = None
    /\ InitRest

\* Flat meshes for the specifications of the tagger and the store, sample
\* edges for the workflow operators.
InitData == InitWith({[e \in 1..NumEdges |-> FlatEdge]})

Init == InitWith(SampleEdgeLists)

(***************************************************************************)
(* SpecTagger: the tagger's functions called directly, with the generator  *)
(* painting faces and other code editing the slot list in between.         *)
(***************************************************************************)

\* tag_index, tag_name = create_unique_tag_material(obj)
\* (tag_index = setup_material_tagging(obj) in NDN)
TBegin(o) ==
    /\ addon = "NDN" \/ uuidCount < MaxUuid
    /\ Len(tokens) < MaxUuid
    /\ LET hex == UuidHex[uuidCount + 1]
           r == begin(addon, materials, meshes, objData[o], hex)
       IN /\ materials' = r.materials
          /\ meshes' = r.meshes
          /\ uuidCount' = IF addon = "NDN" THEN uuidCount ELSE uuidCount + 1
          /\ tokens' = Append(tokens, [obj |-> o, tag_name |-> r.tag_name,
                                       tag_slot_index |-> r.tag_slot_index])
          /\ last' = [op |-> "begin", obj |-> o, tag_name |-> r.tag_name,
                      tag_slot_index |-> r.tag_slot_index,
                      before |-> meshes[objData[o]], materialsBefore |-> materials,
                      issuedBefore |-> issued]
          /\ issued' = issued \cup {r.tag_name}
    /\ UNCHANGED <<addon, objData, objKey, created, edits, modifiers, runs, pc, mesh_select_mode, cls, synth>>

\* cleanup_tag_material(obj, tag_name) with a token begin returned for obj.
TEnd(o, k) ==
    /\ k \in DOMAIN tokens
    /\ tokens[k].obj = o
    /\ LET tag_name == tokens[k].tag_name
           r == end(addon, materials, meshes, objData[o], tag_name)
       IN /\ materials' = r.materials
          /\ meshes' = r.meshes
          /\ last' = [op |-> "end", obj |-> o, tag_name |-> tag_name,
                      before |-> meshes[objData[o]],
                      paired |-> last.op = "begin" /\ last.obj = o /\ last.tag_name = tag_name,
                      tag_slot_index |-> tokens[k].tag_slot_index,
                      beforeBegin |-> IF last.op = "begin" THEN last.before ELSE meshes[objData[o]]]
          /\ tokens' = SubSeq(tokens, 1, k - 1) \o SubSeq(tokens, k + 1, Len(tokens))
    /\ UNCHANGED <<addon, objData, objKey, uuidCount, created, issued, edits, modifiers, runs, pc, mesh_select_mode, cls, synth>>

\* The generator (or any painter) sets a face to the slot index begin returned.
TPaint(o, f, k) ==
    /\ k \in DOMAIN tokens
    /\ tokens[k].obj = o
    /\ o = "Cube"
    /\ edits < MaxEdits
    /\ edits' = edits + 1
    /\ f \in DOMAIN faces_of(o)
    /\ faces_of(o)[f] # tokens[k].tag_slot_index
    /\ meshes' = [meshes EXCEPT ![objData[o]].faces[f] = tokens[k].tag_slot_index]
    /\ last' = [op |-> "edit"]
    /\ UNCHANGED <<addon, materials, objData, objKey, uuidCount, created, tokens, issued, modifiers, runs, pc, mesh_select_mode, cls, synth>>

\* Between begin and end, other code inserts a slot holding ExtraMaterial at
\* position p (0-based).
TInsertSlot(o, p) ==
    /\ o = "Cube"
    /\ \E k \in DOMAIN tokens : tokens[k].obj = o
    /\ edits < MaxEdits
    /\ edits' = edits + 1
    /\ p \in 0..Len(slots_of(o))
    /\ \A i \in DOMAIN slots_of(o) : slots_of(o)[i] # ExtraMaterial
    /\ meshes' = [meshes EXCEPT ![objData[o]].materials =
                     SubSeq(@, 1, p) \o <<ExtraMaterial>> \o SubSeq(@, p + 1, Len(@))]
    /\ last' = [op |-> "edit"]
    /\ UNCHANGED <<addon, materials, objData, objKey, uuidCount, created, tokens, issued, modifiers, runs, pc, mesh_select_mode, cls, synth>>

\* Between begin and end, other code removes a slot that holds a user material.
TRemoveSlot(o, p) ==
    /\ o = "Cube"
    /\ \E k \in DOMAIN tokens : tokens[k].obj = o
    /\ edits < MaxEdits
    /\ edits' = edits + 1
    /\ p \in 0..(Len(slots_of(o)) - 1)
    /\ slots_of(o)[p + 1] \in AllUserMaterials
    /\ meshes' = [meshes EXCEPT ![objData[o]].materials = material_slot_remove(@, p)]
    /\ last' = [op |-> "edit"]
    /\ UNCHANGED <<addon, materials, objData, objKey, uuidCount, created, tokens, issued, modifiers, runs, pc, mesh_select_mode, cls, synth>>

NextTagger ==
    \/ \E o \in Objects : TBegin(o)
    \/ \E o \in Objects, k \in 1..MaxUuid : TEnd(o, k)
    \/ \E o \in Objects, f \in 1..NumFaces, k \in 1..MaxUuid : TPaint(o, f, k)
    \/ \E o \in Objects, p \in 0..(MaxSlots + MaxUuid + 2) : TInsertSlot(o, p)
    \/ \E o \in Objects, p \in 0..(MaxSlots + MaxUuid + 2) : TRemoveSlot(o, p)

SpecTagger == InitData /\ [][NextTagger]_vars

(***************************************************************************)
(* SpecStore: the snapshot functions called directly on the objects, with  *)
(* edits of the live meshes in between.                                    *)
(***************************************************************************)

\* create_mesh_backup(obj)
SCreate(o) ==
    /\ addon = "NDN" \/ uuidCount < MaxUuid
    /\ LET r == create_mesh_backup(addon, meshes, objData, objKey, o, UuidHex[uuidCount + 1])
       IN /\ meshes' = r.meshes
          /\ objData' = r.objData
          /\ objKey' = r.objKey
    /\ uuidCount' = IF addon = "NDN" THEN uuidCount ELSE uuidCount + 1
    /\ created' = [created EXCEPT ![o] = meshes[objData[o]]]
    /\ last' = [op |-> "create", obj |-> o,
                hadBackup |-> has_backup(addon, meshes, objData, objKey, o)]
    /\ UNCHANGED <<addon, materials, tokens, issued, edits, modifiers, runs, pc, mesh_select_mode, cls, synth>>

\* restore_mesh_backup(obj)
SRestore(o) ==
    /\ LET r == restore_mesh_backup(addon, meshes, objData, objKey, o)
       IN /\ meshes' = r.meshes
          /\ objData' = r.objData
          /\ objKey' = r.objKey
          /\ last' = [op |-> "restore", obj |-> o, ret |-> r.ret,
                      hadBackup |-> has_backup(addon, meshes, objData, objKey, o),
                      afterRestore |-> last.op = "restore" /\ last.ret /\ last.obj = o,
                      meshesBefore |-> meshes, objDataBefore |-> objData,
                      objKeyBefore |-> objKey]
    /\ UNCHANGED <<addon, materials, uuidCount, created, tokens, issued, edits, modifiers, runs, pc, mesh_select_mode, cls, synth>>

\* has_backup(obj)
SHasBackup(o) ==
    /\ last' = [op |-> "has_backup", obj |-> o,
                ret |-> has_backup(addon, meshes, objData, objKey, o)]
    /\ UNCHANGED <<addon, materials, meshes, objData, objKey, uuidCount, created, tokens, issued, edits, modifiers, runs, pc, mesh_select_mode, cls, synth>>

\* Any edit of the live mesh of o: its geometry becomes version g.
SMutate(o, g) ==
    /\ meshes[objData[o]].geom # g
    /\ meshes' = [meshes EXCEPT ![objData[o]].geom = g]
    /\ last' = [op |-> "edit"]
    /\ UNCHANGED <<addon, materials, objData, objKey, uuidCount, created, tokens, issued, edits, modifiers, runs, pc, mesh_select_mode, cls, synth>>

\* The user renames the mesh of o to a name that ends with the backup
\* suffix of non_destructive_normals.py (obj.data.name = ...); the host
\* grants a unique name.
SRename(o) ==
    /\ edits < MaxRenames
    /\ edits' = edits + 1
    /\ \A i \in DOMAIN objData[o] : objData[o][i] # ACN_BACKUP_SUFFIX
    /\ LET name == objData[o]
           granted == UniqueName(Append(name, ACN_BACKUP_SUFFIX), DOMAIN meshes)
       IN /\ meshes' = [n \in (DOMAIN meshes \ {name}) \cup {granted} |->
                           IF n = granted THEN meshes[name] ELSE meshes[n]]
          /\ objData' = [p \in Objects |-> IF objData[p] = name THEN granted ELSE objData[p]]
    /\ last' = [op |-> "edit"]
    /\ UNCHANGED <<addon, materials, objKey, uuidCount, created, tokens, issued,
                   modifiers, runs, pc, mesh_select_mode, cls, synth>>

NextStore ==
    \/ \E o \in Objects : SCreate(o)
    \/ \E o \in Objects : SRestore(o)
    \/ \E o \in Objects : SHasBackup(o)
    \/ \E o \in Objects, g \in 0..MaxGeom : SMutate(o, g)

SpecStore == InitData /\ [][NextStore]_vars

\* The store functions with renames of the live meshes in between.
NextStoreRename ==
    \/ \E o \in Objects : SCreate(o)
    \/ \E o \in Objects : SRestore(o)
    \/ \E o \in Objects : SHasBackup(o)
    \/ \E o \in Objects, g \in 0..MaxGeom : SMutate(o, g)
    \/ \E o \in Objects : SRename(o)

SpecStoreRename == InitData /\ [][NextStoreRename]_vars

(***************************************************************************)
(* Spec: the workflow operators.  An operator runs from OpStart to the     *)
(* call of bpy.ops.object.modifier_apply, which the host answers by        *)
(* applying the modifier or by raising RuntimeError (a disabled modifier,  *)
(* multi-user mesh data, shape keys); OpFinish is the rest of the          *)
(* operator.  Nothing else runs while an operator is under way.            *)
(***************************************************************************)

\* The operators of each add-on that go through begin and end.
OperatorNames(a) ==
    IF a = "NF"
    THEN {"from_bevel_weight", "from_auto_sharp", "from_existing_bevel"}
    ELSE {"from_sharp", "from_seams", "from_bevel_weight", "from_auto_sharp",
          "from_existing_bevel"}

\* poll() of the operators.
poll(name, o) ==
    CASE name = "from_existing_bevel" -> modifiers[o] > 0
      [] name = "remove" -> has_backup(addon, meshes, objData, objKey, o)
      [] OTHER -> TRUE

\* bm.to_mesh(obj.data) after a propagator ran on bm.
to_mesh(D, n, edges) == [D EXCEPT ![n].edges = edges, ![n].weight_layer = TRUE]

\* What execute() has done when it returns CANCELLED or reaches begin;
\* steps lists the calls it made, in the order of the code.
head_result(res, D, A, K, made, snap, steps) ==
    [result |-> res, meshes |-> D, objData |-> A, objKey |-> K,
     backup |-> made, snapshot |-> snap, steps |-> steps]

\* The propagation step of the ACN / NDN operators.
propagate(name, edges) ==
    CASE name = "from_sharp" -> sharp_edges_to_bevel_weight(edges)
      [] name = "from_seams" -> seams_to_bevel_weight(edges)
      [] name = "from_auto_sharp" -> auto_sharp_to_bevel_weight(edges, DEFAULT_ANGLE)
      [] name = "from_bevel_weight" ->
             [edges |-> edges,
              count |-> Cardinality({i \in DOMAIN edges : edges[i].weight > 0})]

\* normalforge.py: execute() of NF_OT_from_bevel_weight, NF_OT_from_auto_sharp
\* and NF_OT_from_existing_bevel up to run_workflow / ensure_smooth_shading.
NF_operator_head(name, D, A, K, o, hex, has_bevel) ==
    IF name = "from_existing_bevel"
    THEN LET b == NF_create_mesh_backup(D, A, K, o, hex)
         IN head_result(IF has_bevel THEN "run" ELSE "CANCELLED",
                        b.meshes, b.objData, b.objKey, TRUE, D[A[o]],
                        <<"create_mesh_backup">>)
    ELSE LET source == IF name = "from_bevel_weight" THEN "BEVEL_WEIGHT" ELSE "ANGLE"
             p == prepare_bevel_weights(D[A[o]], source, DEFAULT_ANGLE)
             D1 == [D EXCEPT ![A[o]] = p.mesh]
             b == NF_create_mesh_backup(D1, A, K, o, hex)
         IN IF p.count = 0
            THEN head_result("CANCELLED", D1, A, K, FALSE, None, <<"propagate">>)
            ELSE head_result("run", b.meshes, b.objData, b.objKey, TRUE, p.mesh,
                             <<"propagate", "create_mesh_backup">>)

\* auto_custom_normals.py: execute() of the ACN_OT_from_* operators up to
\* run_workflow / create_unique_tag_material.
ACN_operator_head(name, D, A, K, o, hex, has_bevel) ==
    IF name = "from_existing_bevel"
    THEN LET b == ACN_create_mesh_backup(D, A, K, o, hex)
         IN head_result(IF has_bevel THEN "run" ELSE "CANCELLED",
                        b.meshes, b.objData, b.objKey, TRUE, D[A[o]],
                        <<"create_mesh_backup">>)
    ELSE LET r == propagate(name, D[A[o]].edges)
             D1 == to_mesh(D, A[o], mark_seams_from_bevel_weight(r.edges))
             b == ACN_create_mesh_backup(D1, A, K, o, hex)
         IN IF (name = "from_bevel_weight" /\ ~D[A[o]].weight_layer) \/ r.count = 0
            THEN head_result("CANCELLED", D, A, K, FALSE, None, <<"propagate">>)
            ELSE head_result("run", b.meshes, b.objData, b.objKey, TRUE, D1[A[o]],
                             <<"propagate", "create_mesh_backup">>)

\* non_destructive_normals.py: execute() of the ACN_OT_from_* operators up
\* to run_workflow / setup_material_tagging; from_sharp, from_seams and
\* from_auto_sharp call create_mesh_backup first.
NDN_operator_head(name, D, A, K, o, has_bevel) ==
    IF name = "from_existing_bevel"
    THEN LET b == NDN_create_mesh_backup(D, A, K, o)
         IN head_result(IF has_bevel THEN "run" ELSE "CANCELLED",
                        b.meshes, b.objData, b.objKey, TRUE, D[A[o]],
                        <<"create_mesh_backup">>)
    ELSE IF name = "from_bevel_weight"
    THEN LET r == propagate(name, D[A[o]].edges)
             D1 == to_mesh(D, A[o], mark_seams_from_bevel_weight(r.edges))
             b == NDN_create_mesh_backup(D1, A, K, o)
         IN IF ~D[A[o]].weight_layer \/ r.count = 0
            THEN head_result("CANCELLED", D, A, K, FALSE, None, <<"propagate">>)
            ELSE head_result("run", b.meshes, b.objData, b.objKey, TRUE, D1[A[o]],
                             <<"propagate", "create_mesh_backup">>)
    ELSE LET b == NDN_create_mesh_backup(D, A, K, o)
             r == propagate(name, D[A[o]].edges)
             D1 == to_mesh(b.meshes, A[o], mark_seams_from_bevel_weight(r.edges))
         IN IF r.count = 0
            THEN head_result("CANCELLED", b.meshes, b.objData, b.objKey, TRUE, D[A[o]],
                             <<"create_mesh_backup", "propagate">>)
            ELSE head_result("run", D1, b.objData, b.objKey, TRUE, D[A[o]],
                             <<"create_mesh_backup", "propagate">>)

operator_head(a, name, D, A, K, o, hex, has_bevel) ==
    CASE a = "NF" -> NF_operator_head(name, D, A, K, o, hex, has_bevel)
      [] a = "ACN" -> ACN_operator_head(name, D, A, K, o, hex, has_bevel)
      [] a = "NDN" -> NDN_operator_head(name, D, A, K, o, has_bevel)

\* A selection that is added to what was selected before.
select_without_clearing(faces, select, tag_material_index) ==
    select \cup {f \in DOMAIN faces : faces[f] # tag_material_index}

\* select_original_faces_by_material(obj, tag_material_index): the faces
\* with select set afterwards, given the faces with select set before; the
\* value returned is the size of the set the last loop selects.
select_original_faces_by_material(faces, select, tag_material_index) ==
    (select \ DOMAIN faces) \cup {f \in DOMAIN faces : faces[f] # tag_material_index}

\* The user adds a BEVEL modifier to an object that has none.
UserAddModifier(o) ==
    /\ pc = Idle
    /\ modifiers[o] = 0
    /\ modifiers' = [modifiers EXCEPT ![o] = 1]
    /\ last' = [op |-> "edit"]
    /\ UNCHANGED <<addon, materials, meshes, objData, objKey, uuidCount, created, tokens,
                   issued, edits, runs, pc, mesh_select_mode, cls, synth>>

\* The snapshot has_backup(obj) finds for o: its content, or None.
snapshot(a, D, A, K, o) ==
    IF has_backup(a, D, A, K, o)
    THEN D[IF a = "NDN" THEN Append(A[o], ACN_BACKUP_SUFFIX) ELSE K[o]]
    ELSE None

\* execute() of a workflow operator on o, up to its return {'CANCELLED'} or
\* to the call of bpy.ops.object.modifier_apply: propagation,
\* create_mesh_backup, begin, and add_bevel_modifier in run_workflow.
OpStart(name, o) ==
    /\ pc = Idle
    /\ runs < MaxRuns
    /\ uuidCount + 2 <= Len(UuidHex)
    /\ name \in OperatorNames(addon)
    /\ poll(name, o)
    /\ runs' = runs + 1
    /\ LET h == operator_head(addon, name, meshes, objData, objKey, o,
                              UuidHex[uuidCount + 1], modifiers[o] > 0)
           drawn == IF h.backup /\ addon # "NDN" THEN 1 ELSE 0
           r == begin(addon, materials, h.meshes, h.objData[o], UuidHex[uuidCount + drawn + 1])
       IN /\ objData' = h.objData
          /\ objKey' = h.objKey
          /\ created' = IF h.backup THEN [created EXCEPT ![o] = h.snapshot] ELSE created
          /\ IF h.result = "CANCELLED"
             THEN /\ meshes' = h.meshes
                  /\ uuidCount' = uuidCount + drawn
                  /\ last' = [op |-> "operator", name |-> name, obj |-> o,
                              result |-> "CANCELLED", steps |-> h.steps,
                              meshBefore |-> meshes[objData[o]],
                              meshAfter |-> h.meshes[h.objData[o]],
                              snapshotBefore |-> snapshot(addon, meshes, objData, objKey, o),
                              snapshotAfter |-> snapshot(addon, h.meshes, h.objData,
                                                         h.objKey, o)]
                  /\ pc' = Idle
                  /\ UNCHANGED <<materials, issued, modifiers, mesh_select_mode, cls, synth>>
             ELSE /\ meshes' = r.meshes
                  /\ materials' = r.materials
                  /\ uuidCount' = uuidCount + drawn + (IF addon = "NDN" THEN 0 ELSE 1)
                  /\ issued' = issued \cup {r.tag_name}
                  /\ modifiers' = IF name = "from_existing_bevel" THEN modifiers
                                  ELSE [modifiers EXCEPT ![o] = @ + 1]
                  /\ last' = [op |-> "running", name |-> name, obj |-> o]
                  /\ pc' = [at |-> "apply", name |-> name, obj |-> o,
                            tag_index |-> r.tag_slot_index, tag_name |-> r.tag_name,
                            steps |-> h.steps \o <<"begin">>]
    /\ UNCHANGED <<addon, tokens, edits, mesh_select_mode, cls, synth>>

\* What other code does to a slot list while a host call runs (handlers on
\* bpy.app.handlers): nothing, a slot holding ExtraMaterial put in front, or
\* the first slot removed when it holds a user material.
HandlerEdits == {"none", "insert", "remove"}

handler_edit(slots, h) ==
    CASE h = "insert" /\ (\A i \in DOMAIN slots : slots[i] # ExtraMaterial) ->
             <<ExtraMaterial>> \o slots
      [] h = "remove" /\ Len(slots) > 0 /\ slots[1] \in AllUserMaterials ->
             material_slot_remove(slots, 0)
      [] OTHER -> slots

\* bpy.ops.object.modifier_apply succeeds: the bevel leaves k new faces on
\* the slot bevel_mod.material (the index begin returned) and the modifier
\* leaves the stack.  With limit_method 'WEIGHT' (run_workflow) k is the
\* number of weighted edges; an existing modifier bevels what its own
\* settings say.  Handlers of other code may run in the call (h).
ModifierApplyOk(k, h) ==
    /\ pc.at = "apply"
    /\ h \in HandlerEdits
    /\ LET n == objData[pc.obj]
           weighted == Cardinality({i \in DOMAIN meshes[n].edges : meshes[n].edges[i].weight > 0})
       IN /\ IF pc.name = "from_existing_bevel"
             THEN k \in 1..Len(meshes[n].edges)
             ELSE k = weighted
          /\ h # "none" => handler_edit(meshes[n].materials, h) # meshes[n].materials
          /\ meshes' = [meshes EXCEPT ![n].faces = @ \o [i \in 1..k |-> pc.tag_index],
                                      ![n].materials = handler_edit(@, h)]
    /\ modifiers' = [modifiers EXCEPT ![pc.obj] = @ - 1]
    /\ pc' = [pc EXCEPT !.at = "applied", !.steps = Append(@, "modifier_apply")]
    /\ UNCHANGED <<addon, materials, objData, objKey, uuidCount, last, created, tokens,
                   issued, edits, runs, mesh_select_mode, cls, synth>>

\* bpy.ops.object.modifier_apply raises: no handler in run_workflow or in
\* execute(), so the operator ends there.
ModifierApplyRaises ==
    /\ pc.at = "apply"
    /\ last' = [op |-> "operator", name |-> pc.name, obj |-> pc.obj, result |-> "failed",
                steps |-> pc.steps]
    /\ pc' = Idle
    /\ UNCHANGED <<addon, materials, meshes, objData, objKey, uuidCount, created, tokens,
                   issued, edits, modifiers, runs, mesh_select_mode, cls, synth>>

\* The operator after modifier_apply: fix_bevel_ngons (run_workflow of
\* normalforge.py) and select_original_faces_by_material with the index
\* begin returned, set_normals_from_faces, cleanup_tag_material, return
\* {'FINISHED'}.  (fix_bevel_ngons finds no face of more than four vertices
\* on the tagged slot: the bevels here have one segment.)  The record keeps
\* the index the calls were given and the index of the token's slot then.
\* normals_written is FALSE when bpy.ops.mesh.set_normals_from_faces raises
\* inside set_normals_from_faces, which catches every Exception and passes.
OpFinish(normals_written) ==
    /\ pc.at = "applied"
    /\ LET n == objData[pc.obj]
           sel == select_original_faces_by_material(meshes[n].faces, meshes[n].select,
                                                    pc.tag_index)
           D1 == [meshes EXCEPT ![n].select = sel]
           r == end(addon, materials, D1, n, pc.tag_name)
       IN /\ materials' = r.materials
          /\ meshes' = r.meshes
          /\ last' = [op |-> "operator", name |-> pc.name, obj |-> pc.obj,
                      result |-> "FINISHED", selected |-> sel,
                      normals_written |-> normals_written,
                      steps |-> pc.steps \o <<"select_original_faces_by_material",
                                               "set_normals_from_faces", "end">>,
                      tag_index |-> pc.tag_index,
                      resolved |-> find_slot(meshes[n].materials, pc.tag_name)]
    /\ mesh_select_mode' = <<FALSE, FALSE, TRUE>>
    /\ pc' = Idle
    /\ UNCHANGED <<addon, objData, objKey, uuidCount, created, tokens, issued, edits,
                   modifiers, runs, cls, synth>>

\* execute() of NF_OT_remove / ACN_OT_remove on o.
OpRemove(o) ==
    /\ pc = Idle
    /\ poll("remove", o)
    /\ LET r == restore_mesh_backup(addon, meshes, objData, objKey, o)
       IN /\ meshes' = r.meshes
          /\ objData' = r.objData
          /\ objKey' = r.objKey
          /\ last' = [op |-> "operator", name |-> "remove", obj |-> o,
                      result |-> IF r.ret THEN "FINISHED" ELSE "CANCELLED"]
    /\ UNCHANGED <<addon, materials, uuidCount, created, tokens, issued, edits, modifiers,
                   runs, pc, mesh_select_mode, cls, synth>>

Next ==
    \/ \E o \in Objects : UserAddModifier(o)
    \/ \E name \in OperatorNames(addon), o \in Objects : OpStart(name, o)
    \/ \E k \in 0..NumEdges, h \in HandlerEdits : ModifierApplyOk(k, h)
    \/ ModifierApplyRaises
    \/ \E normals_written \in BOOLEAN : OpFinish(normals_written)
    \/ \E o \in Objects : OpRemove(o)

Spec == Init /\ [][Next]_vars

(***************************************************************************)
(* SpecSelect: select_original_faces_by_material called on meshes with any *)
(* face indices, any faces selected before and any select mode.            *)
(***************************************************************************)

\* The select modes a user can have set.
SelectModes == {<<TRUE, FALSE, FALSE>>, <<FALSE, TRUE, FALSE>>, <<FALSE, FALSE, TRUE>>,
                <<TRUE, TRUE, FALSE>>}

InitSelect ==
    /\ addon \in Addons
    /\ objData = [o \in Objects |-> <<o>>]
    /\ \E faces \in [1..NumFaces -> 0..MaxSlots], select \in SUBSET (1..NumFaces) :
          meshes = [n \in {<<o>> : o \in Objects} |->
                       IF n = <<"Cube">>
                       THEN [PlainMesh EXCEPT !.materials = SubSeq(UserMaterials, 1, MaxSlots),
                                              !.faces = faces, !.select = select]
                       ELSE PlainMesh]
    /\ mesh_select_mode \in SelectModes
    /\ cls = None
    /\ synth = None
    /\ InitRest

\* selected = select_original_faces_by_material(obj, slot_index)
SelectCall(o, slot_index) ==
    /\ edits < MaxEdits
    /\ edits' = edits + 1
    /\ LET n == objData[o]
           sel == select_original_faces_by_material(meshes[n].faces, meshes[n].select, slot_index)
       IN /\ meshes' = [meshes EXCEPT ![n].select = sel]
          /\ last' = [op |-> "select", obj |-> o, slot_index |-> slot_index,
                      selectBefore |-> meshes[n].select, modeBefore |-> mesh_select_mode,
                      ret |-> Cardinality({f \in DOMAIN meshes[n].faces :
                                              meshes[n].faces[f] # slot_index})]
    /\ mesh_select_mode' = <<FALSE, FALSE, TRUE>>
    /\ UNCHANGED <<addon, materials, objData, objKey, uuidCount, created, tokens, issued,
                   modifiers, runs, pc, cls, synth>>

NextSelect == \E o \in Objects, slot_index \in 0..(MaxSlots + 1) : SelectCall(o, slot_index)

SpecSelect == InitSelect /\ [][NextSelect]_vars

(***************************************************************************)
(* SpecEdges: the propagators called in any order on meshes whose edges    *)
(* are drawn from EdgeInputs.                                              *)
(***************************************************************************)

\* Edges of every kind the propagators tell apart: flat, at the threshold,
\* creased, boundary, wire (no face), non-manifold (three faces), flagged
\* sharp, flagged seam, partly weighted, fully weighted.
EdgeInputs ==
    {FlatEdge,
     [FlatEdge EXCEPT !.angle = 30],
     [FlatEdge EXCEPT !.angle = 90],
     [FlatEdge EXCEPT !.link_faces = 1],
     [FlatEdge EXCEPT !.link_faces = 0],
     [FlatEdge EXCEPT !.link_faces = 3, !.angle = 90],
     [FlatEdge EXCEPT !.smooth = FALSE],
     [FlatEdge EXCEPT !.seam = TRUE],
     [FlatEdge EXCEPT !.weight = 5],
     [FlatEdge EXCEPT !.weight = 10]}

\* The thresholds the angle propagators are called with, in degrees.
Thresholds == {30, 90}

InitEdges ==
    /\ addon \in Addons
    /\ objData = [o \in Objects |-> <<o>>]
    /\ \E edges \in [1..NumEdges -> EdgeInputs] :
          meshes = [n \in {<<o>> : o \in Objects} |->
                       IF n = <<"Cube">>
                       THEN [PlainMesh EXCEPT !.edges = edges,
                                              !.weight_layer = \E i \in DOMAIN edges : edges[i].weight > 0]
                       ELSE PlainMesh]
    /\ mesh_select_mode = <<TRUE, FALSE, FALSE>>
    /\ cls = None
    /\ synth = None
    /\ InitRest

\* The record of a propagator call on o that left `edges` and returned count
\* (source is the source argument of prepare_bevel_weights).
propagator_call(name, o, edges, count, angle_threshold, source) ==
    /\ meshes' = to_mesh(meshes, objData[o], edges)
    /\ last' = [op |-> name, obj |-> o, before |-> meshes[objData[o]].edges,
                count |-> count, angle_threshold |-> angle_threshold, source |-> source,
                again |-> last.op = name /\ last.obj = o,
                countBefore |-> IF last.op = name /\ last.obj = o THEN last.count ELSE 0]
    /\ UNCHANGED <<addon, materials, objData, objKey, uuidCount, created, tokens, issued,
                   edits, modifiers, runs, pc, mesh_select_mode, cls, synth>>

\* normalforge.py: edges_by_angle(bm, angle_threshold) on the mesh of o.
PEdgesByAngle(o, angle_threshold) ==
    /\ addon = "NF"
    /\ LET r == edges_by_angle(meshes[objData[o]].edges, angle_threshold)
       IN propagator_call("edges_by_angle", o, r.edges, r.count, angle_threshold, "")

\* normalforge.py: prepare_bevel_weights(obj, source, angle_threshold).
PPrepare(o, source, angle_threshold) ==
    /\ addon = "NF"
    /\ LET r == prepare_bevel_weights(meshes[objData[o]], source, angle_threshold)
       IN propagator_call("prepare_bevel_weights", o, r.mesh.edges, r.count, angle_threshold,
                          source)

\* sharp_edges_to_bevel_weight(bm) on the mesh of o.
PSharp(o) ==
    /\ addon # "NF"
    /\ LET r == sharp_edges_to_bevel_weight(meshes[objData[o]].edges)
       IN propagator_call("sharp_edges_to_bevel_weight", o, r.edges, r.count, 0, "")

\* seams_to_bevel_weight(bm) on the mesh of o.
PSeams(o) ==
    /\ addon # "NF"
    /\ LET r == seams_to_bevel_weight(meshes[objData[o]].edges)
       IN propagator_call("seams_to_bevel_weight", o, r.edges, r.count, 0, "")

\* auto_sharp_to_bevel_weight(bm, angle_threshold) on the mesh of o.
PAutoSharp(o, angle_threshold) ==
    /\ addon # "NF"
    /\ LET r == auto_sharp_to_bevel_weight(meshes[objData[o]].edges, angle_threshold)
       IN propagator_call("auto_sharp_to_bevel_weight", o, r.edges, r.count, angle_threshold, "")

NextEdges ==
    \/ \E o \in Objects, t \in Thresholds : PEdgesByAngle(o, t)
    \/ \E o \in Objects, t \in Thresholds, source \in {"BEVEL_WEIGHT", "ANGLE"} :
          PPrepare(o, source, t)
    \/ \E o \in Objects : PSharp(o)
    \/ \E o \in Objects : PSeams(o)
    \/ \E o \in Objects, t \in Thresholds : PAutoSharp(o, t)

SpecEdges == InitEdges /\ [][NextEdges]_vars

(***************************************************************************)
(* The region classifier: normalforge.py detect_bevel_faces.               *)
(*                                                                         *)
(* cls holds the locals of a call: bm (the BMesh read from obj.data: the   *)
(* area of each face and, for each edge, the set of faces it links), the   *)
(* ratio, and the sets the function builds.  Areas are whole numbers and   *)
(* the ratio is in tenths, so the cutoff median_area * ratio_threshold is  *)
(* kept in tenths of an area unit and a face is small when ten times its   *)
(* area is below it.  frontier.pop() takes any element of the set.         *)
(***************************************************************************)

\* The face areas the drawn meshes use.
Areas == {1, 2, 4}

\* The values of props.detect_ratio, in tenths (min 0.01, max 1.0).
Ratios == {1, 5, 10}

\* The link_faces sets an edge of a mesh with n faces may have: the edges of
\* a strip of faces, and one edge shared by three faces.
CandidateEdges(n) ==
    {{i, i + 1} : i \in 1..(n - 1)} \cup (IF n >= 3 THEN {{1, 2, 3}} ELSE {})

\* The position of the first smallest element of a non-empty sequence.
first_min(s) ==
    CHOOSE i \in DOMAIN s :
        /\ \A j \in DOMAIN s : s[i] <= s[j]
        /\ \A j \in 1..(i - 1) : s[j] > s[i]

\* s without its i-th element.
without(s, i) == SubSeq(s, 1, i - 1) \o SubSeq(s, i + 1, Len(s))

RECURSIVE sorted(_)
\* sorted(areas): the elements in ascending order.
sorted(s) ==
    IF s = <<>> THEN <<>>
    ELSE LET i == first_min(s) IN <<s[i]>> \o sorted(without(s, i))

\* A median that takes the lower of the two middle elements.
lower_median(areas) == sorted(areas)[(Len(areas) + 1) \div 2]

\* median_area = areas[len(areas) // 2] of the sorted areas (0-based).
median_area(areas) == sorted(areas)[(Len(areas) \div 2) + 1]

\* cutoff = median_area * ratio_threshold, in tenths.
cutoff(bm, ratio_threshold) == median_area(bm.areas) * ratio_threshold

\* small_faces: face.calc_area() < cutoff.
small_faces(bm, ratio_threshold) ==
    {f \in DOMAIN bm.areas : bm.areas[f] * 10 < cutoff(bm, ratio_threshold)}

\* large_faces: the other faces.
large_faces(bm, ratio_threshold) ==
    DOMAIN bm.areas \ small_faces(bm, ratio_threshold)

\* neighbors[face.index]: the faces linked to an edge of the face, itself
\* left out.
neighbors(bm) ==
    [f \in DOMAIN bm.areas |->
        {g \in DOMAIN bm.areas : g # f /\ \E e \in bm.edges : f \in e /\ g \in e}]

\* An abort test that looks at the number of faces and the median only.
aborts_on_size_only(bm, ratio_threshold) ==
    \/ Len(bm.areas) < 2
    \/ median_area(bm.areas) <= 0

\* The early returns of detect_bevel_faces.
aborts(bm, ratio_threshold) ==
    \/ Len(bm.areas) < 2
    \/ median_area(bm.areas) <= 0
    \/ small_faces(bm, ratio_threshold) = {}
    \/ large_faces(bm, ratio_threshold) = {}

\* The locals of a call that has returned (count, original_indices).
returned(c, count, original_indices, aborted) ==
    [c EXCEPT !.pc = "done", !.aborted = aborted,
              !.result = [count |-> count, original_indices |-> original_indices]]

\* detect_bevel_faces up to the while loop.
detect_begin(c) ==
    LET c0 == [c EXCEPT !.returned_before =
                            IF c.pc = "done" THEN @ \cup {c.result} ELSE @,
                        !.median_area = 0, !.small_faces = {}, !.large_faces = {},
                        !.confirmed_bevel = {}, !.frontier = {}, !.aborted = FALSE,
                        !.added_twice = FALSE,
                        !.result = [count |-> 0, original_indices |-> {}]]
    IN IF aborts(c.bm, c.ratio_threshold)
       THEN returned([c0 EXCEPT !.median_area =
                                    IF Len(c.bm.areas) < 2 THEN 0 ELSE median_area(c.bm.areas)],
                     0, {}, TRUE)
       ELSE LET small == small_faces(c.bm, c.ratio_threshold)
                large == large_faces(c.bm, c.ratio_threshold)
                nb == neighbors(c.bm)
            IN [c0 EXCEPT !.pc = "loop",
                          !.median_area = median_area(c.bm.areas),
                          !.small_faces = small,
                          !.large_faces = large,
                          !.frontier = {n \in small : \E idx \in large : n \in nb[idx]}]

\* A loop body that confirms the face and does not look at its neighbours.
pop_without_spreading(c, current) ==
    [c EXCEPT !.confirmed_bevel = @ \cup {current}, !.frontier = @ \ {current}]

\* A loop body without the two membership tests: it confirms current again
\* and pushes every small neighbour.
pop_without_tests(c, current) ==
    [c EXCEPT !.confirmed_bevel = @ \cup {current},
              !.added_twice = @ \/ current \in c.confirmed_bevel,
              !.frontier = (@ \ {current}) \cup
                           {n \in neighbors(c.bm)[current] : n \in c.small_faces}]

\* One pass of the while loop with current = frontier.pop().  added_twice
\* records a confirmed_bevel.add(current) run on a face already in the set.
pop_step(c, current) ==
    IF current \in c.confirmed_bevel
    THEN [c EXCEPT !.frontier = @ \ {current}]
    ELSE LET confirmed == c.confirmed_bevel \cup {current}
         IN [c EXCEPT !.confirmed_bevel = confirmed,
                      !.frontier = (@ \ {current}) \cup
                                   {n \in neighbors(c.bm)[current] :
                                       n \in c.small_faces /\ n \notin confirmed}]

\* A return that leaves the unreached small faces out of original_indices.
detect_end_large_only(c) ==
    returned(c, Cardinality(c.confirmed_bevel), c.large_faces, FALSE)

\* The lines after the loop: original_indices and the return.
detect_end(c) ==
    returned(c, Cardinality(c.confirmed_bevel),
             c.large_faces \cup {idx \in c.small_faces : idx \notin c.confirmed_bevel},
             FALSE)

\* Every mesh of up to ClsFaces faces with areas from Areas and edges from
\* CandidateEdges.
DrawnBMeshes ==
    UNION {{[areas |-> areas, edges |-> edges] :
               areas \in [1..n -> Areas], edges \in SUBSET CandidateEdges(n)} :
           n \in 0..ClsFaces}

\* The edges of a mesh of nine faces where the faces 2 to 9 lie in a ring
\* around face 1: each ring face shares an edge with face 1 and with the
\* next face of the ring.
RingEdges ==
    {{1, k} : k \in 2..9} \cup {{k, k + 1} : k \in 2..8} \cup {{9, 2}}

\* Areas of the nine faces: face 1 larger than every ring face, the ring
\* faces equal, of two sizes, or growing.
RingAreas ==
    {<<4, 1, 1, 1, 1, 1, 1, 1, 1>>,
     <<4, 1, 1, 1, 1, 2, 2, 2, 2>>,
     <<4, 0, 0, 0, 0, 1, 1, 1, 2>>}

\* A larger mesh: face 1 is large and shares one edge with the small faces
\* 2 and 3, the small face 4 is joined to 3 only, the small face 5 touches
\* nothing, the faces 6, 7, 8 are a strip of large faces.  Then meshes with
\* faces of no area: all of them, most of them, one of them.
SampleBMeshes ==
    {[areas |-> <<4, 1, 1, 1, 1, 4, 4, 4>>,
      edges |-> {{1, 2, 3}, {3, 4}, {6, 7}, {7, 8}}],
     [areas |-> <<0, 0>>, edges |-> {{1, 2}}],
     [areas |-> <<0, 0, 4>>, edges |-> {{1, 2}, {2, 3}}],
     [areas |-> <<0, 4, 4>>, edges |-> {{1, 2}, {2, 3}}]}
    \cup {[areas |-> areas, edges |-> RingEdges] : areas \in RingAreas}

\* The meshes and ratios detect_bevel_faces is run on.
InitCls ==
    /\ addon = "NF"
    /\ objData = [o \in Objects |-> <<o>>]
    /\ meshes = [n \in {<<o>> : o \in Objects} |-> PlainMesh]
    /\ mesh_select_mode = <<TRUE, FALSE, FALSE>>
    /\ synth = None
    /\ \E bm \in DrawnBMeshes \cup SampleBMeshes, ratio \in Ratios :
            cls = [pc |-> "idle",
                   bm |-> bm,
                   ratio_threshold |-> ratio,
                   median_area |-> 0, small_faces |-> {}, large_faces |-> {},
                   confirmed_bevel |-> {}, frontier |-> {}, aborted |-> FALSE,
                   added_twice |-> FALSE,
                   result |-> [count |-> 0, original_indices |-> {}],
                   returned_before |-> {}]
    /\ InitRest

\* detect_bevel_faces(obj, ratio_threshold) is called.
DetectBegin ==
    /\ cls.pc \in {"idle", "done"}
    /\ cls' = detect_begin(cls)
    /\ UNCHANGED <<addon, materials, meshes, objData, objKey, uuidCount, last, created,
                   tokens, issued, edits, modifiers, runs, pc, mesh_select_mode, synth>>

\* while frontier: current = frontier.pop() ...
DetectPop(current) ==
    /\ cls.pc = "loop"
    /\ current \in cls.frontier
    /\ cls' = pop_step(cls, current)
    /\ UNCHANGED <<addon, materials, meshes, objData, objKey, uuidCount, last, created,
                   tokens, issued, edits, modifiers, runs, pc, mesh_select_mode, synth>>

\* The loop has ended: detect_bevel_faces returns.
DetectEnd ==
    /\ cls.pc = "loop"
    /\ cls.frontier = {}
    /\ cls' = detect_end(cls)
    /\ UNCHANGED <<addon, materials, meshes, objData, objKey, uuidCount, last, created,
                   tokens, issued, edits, modifiers, runs, pc, mesh_select_mode, synth>>

NextCls ==
    \/ DetectBegin
    \/ \E current \in DOMAIN cls.bm.areas : DetectPop(current)
    \/ DetectEnd

SpecClassifier == InitCls /\ [][NextCls]_vars

\* The while loop keeps running: a pass is taken while the frontier holds a
\* face, and the function returns once it is empty.
SpecClassifierLive ==
    /\ InitCls
    /\ [][NextCls]_vars
    /\ WF_vars(\E current \in DOMAIN cls.bm.areas : DetectPop(current))
    /\ WF_vars(DetectEnd)

(***************************************************************************)
(* The normal synthesizer: weighted(mesh, mode).  The three source files   *)
(* hand the normal write to the host (bpy.ops.mesh.set_normals_from_faces) *)
(* and hold no weighted accumulation, so this part follows section 4.5 of  *)
(* the specification.  Vectors are triples of integers and a unit vector   *)
(* has length UnitLength; corner angles are in units of 30 degrees.  A     *)
(* face is [verts, normal, area, corner_angle], a loop is <<face, k>>, the *)
(* k-th corner of the face.                                                *)
(***************************************************************************)

\* The length of a unit vector.
UnitLength == 5

\* The face normals and original loop normals the sample meshes use.
UnitVectors ==
    {<<5, 0, 0>>, <<0, 5, 0>>, <<0, 0, 5>>, <<0, 0, -5>>, <<3, 4, 0>>, <<0, -4, 3>>}

\* mode of weighted(mesh, mode).
Modes == {"AREA", "ANGLE", "COMBINED"}

\* The corner angles of a quad: a rectangle, or a rhombus of 60 and 120
\* degrees.
QuadCorners == {<<3, 3, 3, 3>>, <<2, 4, 2, 4>>}

ZeroVector == <<0, 0, 0>>

\* v * k, v + w, v . w
scaled(v, k) == [i \in 1..3 |-> v[i] * k]
plus(v, w) == [i \in 1..3 |-> v[i] + w[i]]
dot(v, w) == v[1] * w[1] + v[2] * w[2] + v[3] * w[3]

\* |x|
abs(x) == IF x < 0 THEN -x ELSE x

\* The length of v, rounded down.
length(v) ==
    CHOOSE k \in 0..(abs(v[1]) + abs(v[2]) + abs(v[3])) :
        k * k <= dot(v, v) /\ (k + 1) * (k + 1) > dot(v, v)

\* v brought to unit length (v is not the zero vector).
normalize(v) == [i \in 1..3 |-> (v[i] * UnitLength) \div length(v)]

\* The loops of a mesh.
loops_of(mesh) ==
    {<<f, k>> : f \in DOMAIN mesh.faces, k \in 1..4}

\* weight of a loop: face_area for AREA and COMBINED, corner_angle for ANGLE.
loop_weight(mesh, mode, l) ==
    IF mode = "ANGLE" THEN mesh.faces[l[1]].corner_angle[l[2]]
    ELSE mesh.faces[l[1]].area

RECURSIVE accumulate(_, _, _)
\* The sum of face_normal * weight over the loops in L.
accumulate(mesh, mode, L) ==
    IF L = {} THEN ZeroVector
    ELSE LET l == CHOOSE x \in L : TRUE
         IN plus(scaled(mesh.faces[l[1]].normal, loop_weight(mesh, mode, l)),
                 accumulate(mesh, mode, L \ {l}))

\* The accumulator of vertex v after all faces are visited.
accumulator(mesh, mode, v) ==
    accumulate(mesh, mode, {l \in loops_of(mesh) : mesh.faces[l[1]].verts[l[2]] = v})

\* A write-back that skips the normalisation of the accumulators.
weighted_unnormalized(s) ==
    IF s.target_loops # Cardinality(loops_of(s.mesh))
    THEN [s EXCEPT !.status = "loop-count mismatch"]
    ELSE [s EXCEPT !.status = "done",
                   !.custom = [l \in loops_of(s.mesh) |->
                                  LET acc == accumulator(s.mesh, s.mode,
                                                         s.mesh.faces[l[1]].verts[l[2]])
                                  IN IF acc # ZeroVector THEN acc ELSE s.custom[l]]]

\* weighted(mesh, mode): the custom normal of each loop becomes the
\* normalised accumulator of its vertex, or stays when the accumulator is
\* zero; the call fails when the mesh written to has another loop count.
weighted(s) ==
    IF s.target_loops # Cardinality(loops_of(s.mesh))
    THEN [s EXCEPT !.status = "loop-count mismatch"]
    ELSE [s EXCEPT !.status = "done",
                   !.custom = [l \in loops_of(s.mesh) |->
                                  LET acc == accumulator(s.mesh, s.mode,
                                                         s.mesh.faces[l[1]].verts[l[2]])
                                  IN IF acc # ZeroVector THEN normalize(acc)
                                     ELSE s.custom[l]]]

\* A quad of normal n, area a and corner angles c on the vertices vs.
quad(vs, n, a, c) == [verts |-> vs, normal |-> n, area |-> a, corner_angle |-> c]

\* The sample meshes: one planar quad; two quads that share the vertices 2
\* and 3 and lie in one plane; two such quads folded back to back.
SynthMeshes ==
    {[faces |-> <<quad(<<1, 2, 3, 4>>, n, a, c)>>] :
        n \in UnitVectors, a \in 1..MaxArea, c \in QuadCorners}
    \cup
    {[faces |-> <<quad(<<1, 2, 3, 4>>, n, a, c), quad(<<2, 5, 6, 3>>, scaled(n, sgn), b, c)>>] :
        n \in UnitVectors, a \in 1..MaxArea, b \in 1..MaxArea, c \in QuadCorners,
        sgn \in {1, -1}}

\* The meshes, modes and original loop normals weighted() is run on; the
\* mesh written to has the loops of the mesh measured, or four more.
InitSynth ==
    /\ addon = "NF"
    /\ objData = [o \in Objects |-> <<o>>]
    /\ meshes = [n \in {<<o>> : o \in Objects} |-> PlainMesh]
    /\ mesh_select_mode = <<TRUE, FALSE, FALSE>>
    /\ cls = None
    /\ \E mesh \in SynthMeshes, mode \in Modes, original \in UnitVectors, extra \in {0, 4} :
          synth = [mesh |-> mesh, mode |-> mode,
                   target_loops |-> Cardinality(loops_of(mesh)) + extra,
                   custom |-> [l \in loops_of(mesh) |-> original],
                   original |-> original,
                   status |-> "idle"]
    /\ InitRest

\* weighted(mesh, mode) is called.
Weighted ==
    /\ synth.status = "idle"
    /\ synth' = weighted(synth)
    /\ UNCHANGED <<addon, materials, meshes, objData, objKey, uuidCount, last, created,
                   tokens, issued, edits, modifiers, runs, pc, mesh_select_mode, cls>>

NextSynth == Weighted

SpecSynth == InitSynth /\ [][NextSynth]_vars

(***************************************************************************)
(* Claims about the snapshot store (SpecStore).                            *)
(***************************************************************************)

snapshot_name(o) ==
    IF addon = "NDN" THEN Append(objData[o], ACN_BACKUP_SUFFIX) ELSE objKey[o]

C5_RestoreConsumes ==
    [][/\ (last'.op = "restore" /\ last'.ret) =>
              /\ ~has_backup(addon', meshes', objData', objKey', last'.obj)
              /\ ~restore_mesh_backup(addon', meshes', objData', objKey', last'.obj).ret
       /\ \A o \in Objects :
              (/\ ~has_backup(addon, meshes, objData, objKey, o)
               /\ has_backup(addon', meshes', objData', objKey', o))
                  => (last'.op = "create" /\ last'.obj = o)
       /\ (/\ last.op = "restore" /\ last.ret
           /\ last'.op = "restore" /\ last'.obj = last.obj)
              => ~last'.ret]_vars

\* C5 witness: a restore that fails right after one that succeeded.
C5_Witness ==
    /\ last.op = "restore"
    /\ ~last.ret
    /\ last.afterRestore

\* C6: restore on an object without a snapshot returns False and changes
\* neither the live mesh, nor the key, nor any stored mesh.
C6_RestoreNotFound ==
    (last.op = "restore" /\ ~last.hadBackup) =>
        /\ ~last.ret
        /\ meshes = last.meshesBefore
        /\ objData = last.objDataBefore
        /\ objKey = last.objKeyBefore

\* C6 witness: a restore on an object without a snapshot while the store
\* holds the snapshot of another object.
C6_Witness ==
    /\ last.op = "restore"
    /\ ~last.hadBackup
    /\ \E o \in Objects : o # last.obj /\ has_backup(addon, meshes, objData, objKey, o)

(***************************************************************************)
(* Claims about the tagger (SpecTagger).                                   *)
(***************************************************************************)

\* The mesh of the object the last call was made on.
mesh_now == meshes[objData[last.obj]]

\* The index at which the last end found its token, -1 when it found none.
end_index == find_slot(last.before.materials, last.tag_name)

\* C1: in NF and ACN, begin followed at once by end with the returned token
\* leaves the slot count and every face's material_index as before begin.
C1_RoundTrip ==
    (last.op = "end" /\ last.paired /\ addon \in {"NF", "ACN"}) =>
        /\ Len(mesh_now.materials) = Len(last.beforeBegin.materials)
        /\ mesh_now.faces = last.beforeBegin.faces

\* C2: when end finds the tag slot at index t, faces at t go to 0, faces
\* above t go down by one, faces below t stay, and the tag's slot is gone
\* (stated for the meshes without a "_NF_Default" slot, where cleanup touches
\* no other slot).
C2_EndRenumbers ==
    (/\ last.op = "end"
     /\ end_index # -1
     /\ find_slot(last.before.materials, NF_DEFAULT_NAME) = -1) =>
        /\ \A f \in DOMAIN last.before.faces :
              LET i == last.before.faces[f]
              IN mesh_now.faces[f] = (IF i = end_index THEN 0
                                      ELSE IF i > end_index THEN i - 1 ELSE i)
        /\ Len(mesh_now.materials) = Len(last.before.materials) - 1
        /\ \A i \in DOMAIN mesh_now.materials : mesh_now.materials[i] # last.tag_name

\* C8: the token begin returns differs from every token returned before and
\* from the name of every material present when begin was called.
C8_TokenUnique ==
    last.op = "begin" =>
        /\ last.tag_name \notin last.issuedBefore
        /\ last.tag_name \notin last.materialsBefore

\* C9: the slot index begin returns is at least 1.
C9_TagIndexPositive ==
    last.op = "begin" => last.tag_slot_index >= 1

\* The slots that the tagger does not own: not the token's slot, not the
\* neutral default of NF.
other_slots(slots, tag_name) ==
    SelectSeq(slots, LAMBDA m : m # tag_name /\ m # NF_DEFAULT_NAME)

is_tag_material(m) == m # None /\ Stem(m) \in issued

\* C7: after any execution of a workflow operator (FINISHED, CANCELLED or
\* failed) the object has no material slot bound to a tag token and no tag
\* material remains in bpy.data.materials.
C7_TagPairing ==
    (pc = Idle /\ last.op = "operator") =>
        /\ \A i \in DOMAIN slots_of(last.obj) : ~is_tag_material(slots_of(last.obj)[i])
        /\ \A m \in materials : ~is_tag_material(m)

\* C11: each use of the tag slot index after modifier_apply is given the
\* index at which the token's slot stands at that moment.
C11_NoCachedIndex ==
    (pc = Idle /\ last.op = "operator" /\ last.name # "remove" /\ last.result = "FINISHED") =>
        last.tag_index = last.resolved

(***************************************************************************)
(* Claims about the selection (SpecSelect).                                *)
(***************************************************************************)

\* C12: after select_original_faces_by_material(obj, slot_index) the faces
\* with select set are exactly those whose material_index differs from
\* slot_index, the select mode is face only, and the value returned is the
\* number of those faces, whatever was selected before.
C12_SelectPostcondition ==
    last.op = "select" =>
        LET m == meshes[objData[last.obj]]
            untagged == {f \in DOMAIN m.faces : m.faces[f] # last.slot_index}
        IN /\ m.select = untagged
           /\ mesh_select_mode = <<FALSE, FALSE, TRUE>>
           /\ last.ret = Cardinality(untagged)

\* C12 witness: a call on a mesh where a tagged face was selected before,
\* an untagged face was not, and the mode was not face only.
C12_Witness ==
    /\ last.op = "select"
    /\ LET m == meshes[objData[last.obj]]
       IN /\ \E f \in last.selectBefore : m.faces[f] = last.slot_index
          /\ \E f \in DOMAIN m.faces : f \notin last.selectBefore /\ m.faces[f] # last.slot_index
    /\ last.modeBefore # <<FALSE, FALSE, TRUE>>

(***************************************************************************)
(* Claims about the propagators (SpecEdges).                               *)
(***************************************************************************)

\* The edges of the object the last call was made on.
edges_now == meshes[objData[last.obj]].edges

\* The last call was one of the angle propagators.
from_angle_called == last.op \in {"edges_by_angle", "auto_sharp_to_bevel_weight"}

\* Edge e is a two-face edge above the threshold or a boundary edge.
angle_target(e, angle_threshold) ==
    (e.link_faces = 2 /\ e.angle > angle_threshold) \/ e.link_faces = 1

\* The indices of the edges with a weight above zero.
weighted_edges(edges) == {i \in DOMAIN edges : edges[i].weight > 0}

\* C13: an angle propagator sets weight 1 on the two-face edges whose angle
\* is strictly above the threshold and on the boundary edges, leaves the
\* weight of every other edge (at or below the threshold, no face, more
\* than two faces) as it was, and returns the number of edges it set.
C13_FromAngleResult ==
    from_angle_called =>
        /\ \A i \in DOMAIN last.before :
              IF angle_target(last.before[i], last.angle_threshold)
              THEN edges_now[i].weight = 10
              ELSE edges_now[i].weight = last.before[i].weight
        /\ last.count = Cardinality({i \in DOMAIN last.before :
                                        angle_target(last.before[i], last.angle_threshold)})

\* C13 witness: a call on a mesh with an unweighted edge at the threshold
\* and an unweighted edge the call weights.
C13_Witness ==
    /\ from_angle_called
    /\ \E i \in DOMAIN last.before :
          /\ last.before[i].link_faces = 2
          /\ last.before[i].angle = last.angle_threshold
          /\ last.before[i].weight = 0
    /\ \E i \in DOMAIN last.before :
          /\ angle_target(last.before[i], last.angle_threshold)
          /\ last.before[i].weight = 0

\* C14: every edge an angle propagator sets to weight 1 has its sharp flag
\* set (smooth false) afterwards.
C14_FromAngleForcesSharp ==
    from_angle_called =>
        \A i \in DOMAIN last.before :
            angle_target(last.before[i], last.angle_threshold) => ~edges_now[i].smooth

\* C15: sharp_edges_to_bevel_weight sets weight 1 on every edge flagged
\* sharp and changes no other weight, seams_to_bevel_weight does so for the
\* edges flagged seam, each returns the number of flagged edges, and with
\* no flagged edge each returns 0 and changes no weight.
C15_FromSharpFromSeam ==
    last.op \in {"sharp_edges_to_bevel_weight", "seams_to_bevel_weight"} =>
        LET flagged(e) == IF last.op = "sharp_edges_to_bevel_weight" THEN ~e.smooth ELSE e.seam
            n == Cardinality({i \in DOMAIN last.before : flagged(last.before[i])})
        IN /\ \A i \in DOMAIN last.before :
                 IF flagged(last.before[i])
                 THEN edges_now[i].weight = 10
                 ELSE edges_now[i].weight = last.before[i].weight
           /\ last.count = n
           /\ n = 0 => (last.count = 0 /\ edges_now = last.before)

\* C15 witness: a call that weights a flagged edge next to an edge that
\* carries the other flag and stays unweighted.
C15_Witness ==
    /\ last.op \in {"sharp_edges_to_bevel_weight", "seams_to_bevel_weight"}
    /\ last.count > 0
    /\ \E i \in DOMAIN last.before :
          /\ edges_now[i].weight = 0
          /\ IF last.op = "sharp_edges_to_bevel_weight"
             THEN last.before[i].seam ELSE ~last.before[i].smooth

\* C16: sharp_edges_to_bevel_weight run again right after itself leaves the
\* same edges weighted and returns the same count.
C16_FromSharpIdempotent ==
    (last.op = "sharp_edges_to_bevel_weight" /\ last.again) =>
        /\ weighted_edges(edges_now) = weighted_edges(last.before)
        /\ last.count = last.countBefore

\* C16 witness: a second run in a row on a mesh with a sharp edge.
C16_Witness ==
    /\ last.op = "sharp_edges_to_bevel_weight"
    /\ last.again
    /\ last.count > 0

\* The edges of all meshes carry weight 0.0 or 1.0.
binary_weights(D) ==
    \A n \in DOMAIN D : \A i \in DOMAIN D[n].edges : D[n].edges[i].weight \in {0, 10}

\* C17: every weight a propagator writes is 0.0 or 1.0, and a propagator
\* run on meshes whose weights are all 0.0 or 1.0 leaves them so.
C17_BinaryWeights ==
    [][/\ \A n \in DOMAIN meshes :
              \A i \in DOMAIN meshes[n].edges :
                  meshes'[n].edges[i].weight # meshes[n].edges[i].weight
                      => meshes'[n].edges[i].weight \in {0, 10}
       /\ binary_weights(meshes) => binary_weights(meshes')]_vars

\* C17 witness: prepare_bevel_weights run on a mesh with a partial weight,
\* which it overwrote.
C17_Witness ==
    /\ last.op = "prepare_bevel_weights"
    /\ \E i \in DOMAIN last.before :
          last.before[i].weight = 5 /\ edges_now[i].weight # 5

(***************************************************************************)
(* Claims about the region classifier (SpecClassifier).                    *)
(***************************************************************************)

\* All faces of bm have the same area.
equal_areas(bm) == \A f, g \in DOMAIN bm.areas : bm.areas[f] = bm.areas[g]

\* C18: detect_bevel_faces returns (0, empty set) for every mesh with fewer
\* than two faces and for every mesh whose faces all have the same area,
\* for every ratio in (0, 1].
C18_ClassifierAborts ==
    (cls.pc = "done" /\ (Len(cls.bm.areas) < 2 \/ equal_areas(cls.bm))) =>
        cls.result = [count |-> 0, original_indices |-> {}]

\* C18 witness: a call has returned on a mesh of several faces of one
\* positive area that share edges.
C18_Witness ==
    /\ cls.pc = "done"
    /\ Len(cls.bm.areas) >= 2
    /\ equal_areas(cls.bm)
    /\ cls.bm.areas[1] > 0
    /\ cls.bm.edges # {}

\* C19: the median area detect_bevel_faces uses is the middle element of the
\* sorted areas, and for an even number n of faces the lower-middle one
\* (the (n/2)-th smallest).
C19_MedianLowerMiddle ==
    (cls.pc # "idle" /\ Len(cls.bm.areas) >= 2) =>
        cls.median_area = lower_median(cls.bm.areas)

\* The small faces of the result S that have not been reached yet and are
\* adjacent to a face of S or to a large face.
RECURSIVE grow(_, _)
grow(c, S) ==
    LET more == {n \in c.small_faces \ S :
                    \E f \in S \cup c.large_faces : n \in neighbors(c.bm)[f]}
    IN IF more = {} THEN S ELSE grow(c, S \cup more)

\* The small faces joined to a large face by a path of edge-adjacent faces
\* whose faces after the first are all small.
bevel_region(c) == grow(c, {})

\* C20: when detect_bevel_faces does not abort, whatever the order of the
\* pops, the confirmed faces are the small faces joined to a large face by a
\* path of small faces, the original set is the large faces plus the other
\* small faces, and every earlier call on the mesh returned the same pair.
C20_ClassifierResult ==
    (cls.pc = "done" /\ ~cls.aborted) =>
        /\ cls.small_faces = {f \in DOMAIN cls.bm.areas :
                                 cls.bm.areas[f] * 10 < cutoff(cls.bm, cls.ratio_threshold)}
        /\ cls.confirmed_bevel = bevel_region(cls)
        /\ cls.result.count = Cardinality(bevel_region(cls))
        /\ cls.result.original_indices =
               cls.large_faces \cup (cls.small_faces \ bevel_region(cls))
        /\ \A r \in cls.returned_before : r = cls.result

\* C20 witness: a second call has returned on a mesh where a large face has
\* two small neighbours (so the pops had an order to choose), a confirmed
\* face touches no large face, and a small face was not reached.
C20_Witness ==
    /\ cls.pc = "done"
    /\ ~cls.aborted
    /\ cls.returned_before # {}
    /\ \E f \in cls.large_faces :
          Cardinality(neighbors(cls.bm)[f] \cap cls.small_faces) >= 2
    /\ \E n \in cls.confirmed_bevel :
          neighbors(cls.bm)[n] \cap cls.large_faces = {}
    /\ cls.small_faces \ cls.confirmed_bevel # {}

\* bm is one large face with a ring of eight smaller faces around it.
is_ring(bm) ==
    /\ Len(bm.areas) = 9
    /\ bm.edges = RingEdges
    /\ \A f \in 2..9 : bm.areas[f] < bm.areas[1]

\* C21: on a mesh of one large face surrounded by a ring of eight small
\* faces, detect_bevel_faces returns the count 8 and the original set that
\* holds the large face only.
C21_RingScenario ==
    (cls.pc = "done" /\ is_ring(cls.bm)) =>
        cls.result = [count |-> 8, original_indices |-> {1}]

\* C26: the frontier loop of detect_bevel_faces ends, and no face is added
\* to the confirmed set twice.
C26_FloodFillTerminates ==
    /\ [](~cls.added_twice)
    /\ (cls.pc = "loop") ~> (cls.pc = "done")

\* C26 witness: a loop that confirmed several faces, one of them reached
\* through another small face, has ended.
C26_Witness ==
    /\ cls.pc = "done"
    /\ ~cls.aborted
    /\ Cardinality(cls.confirmed_bevel) >= 3
    /\ \E n \in cls.confirmed_bevel : neighbors(cls.bm)[n] \cap cls.large_faces = {}

\* C28: when detect_bevel_faces returns a count other than zero, the
\* confirmed set and the original set are disjoint, together they hold every
\* face index, the count plus the size of the original set is the number of
\* faces, every confirmed face has an area below the cutoff, and the
\* original set is not empty.
C28_ClassifierPartition ==
    (cls.pc = "done" /\ cls.result.count # 0) =>
        LET original == cls.result.original_indices
        IN /\ cls.confirmed_bevel \cap original = {}
           /\ cls.confirmed_bevel \cup original = DOMAIN cls.bm.areas
           /\ cls.result.count + Cardinality(original) = Len(cls.bm.areas)
           /\ \A f \in cls.confirmed_bevel :
                 cls.bm.areas[f] * 10 < cutoff(cls.bm, cls.ratio_threshold)
           /\ original # {}

\* C28 witness: a call returned a count above zero and an original set that
\* holds a small face the flood fill did not reach.
C28_Witness ==
    /\ cls.pc = "done"
    /\ cls.result.count > 0
    /\ cls.result.original_indices \cap cls.small_faces # {}

(***************************************************************************)
(* Further claims about the propagators (SpecEdges).                       *)
(***************************************************************************)

\* C27: prepare_bevel_weights with source 'BEVEL_WEIGHT' on a mesh with an
\* edge of weight above zero changes no weight and returns the number of
\* such edges; on a mesh without one it leaves the edges as edges_by_angle
\* does and returns the count of edges_by_angle.
C27_ExistingWeightsFallback ==
    (last.op = "prepare_bevel_weights" /\ last.source = "BEVEL_WEIGHT") =>
        IF weighted_edges(last.before) # {}
        THEN /\ \A i \in DOMAIN last.before : edges_now[i].weight = last.before[i].weight
             /\ last.count = Cardinality(weighted_edges(last.before))
        ELSE /\ edges_now = edges_by_angle(last.before, last.angle_threshold).edges
             /\ last.count = edges_by_angle(last.before, last.angle_threshold).count

\* C27 witness: the call ran on a mesh whose only weighted edge has a
\* partial weight, next to an edge the angle test would weight.
C27_Witness ==
    /\ last.op = "prepare_bevel_weights"
    /\ last.source = "BEVEL_WEIGHT"
    /\ \E i \in DOMAIN last.before : last.before[i].weight = 5
    /\ \A i \in DOMAIN last.before : last.before[i].weight # 10
    /\ \E i \in DOMAIN last.before :
          above_angle(last.before[i], last.angle_threshold) /\ last.before[i].weight = 0

(***************************************************************************)
(* Further claims about the snapshot store.                                *)
(***************************************************************************)

\* C29: in every state and for every object, has_backup(obj) is True
\* exactly when restore_mesh_backup(obj) called in that state would return
\* True.
C29_ExistsAgreesWithRestore ==
    \A o \in Objects :
        has_backup(addon, meshes, objData, objKey, o)
            = restore_mesh_backup(addon, meshes, objData, objKey, o).ret

(***************************************************************************)
(* Further claims about the workflow operators (Spec).                     *)
(***************************************************************************)

\* The last thing that happened is a workflow operator returning res.
operator_returned(res) ==
    pc = Idle /\ last.op = "operator" /\ last.name # "remove" /\ last.result = res

\* C22: when a workflow operator cancels because its propagation step
\* matched no edge, the edges (weight, sharp and seam flags), the material
\* slots and the faces' material indices of the mesh are as they were
\* before the operator ran.
C22_CancelLeavesMesh ==
    (operator_returned("CANCELLED") /\ \E i \in DOMAIN last.steps : last.steps[i] = "propagate") =>
        /\ last.meshAfter.edges = last.meshBefore.edges
        /\ last.meshAfter.materials = last.meshBefore.materials
        /\ last.meshAfter.faces = last.meshBefore.faces

\* C23: when the normal write fails, the workflow operator does not end
\* with FINISHED.
C23_NormalFailureReported ==
    operator_returned("FINISHED") => last.normals_written

\* The calls of the operator that runs or has just ended, in order.
steps_made ==
    IF pc # Idle THEN pc.steps
    ELSE IF last.op = "operator" /\ last.name # "remove" THEN last.steps
    ELSE <<>>

\* Call a was made, and before call b if b was made.
made_before(S, a, b) ==
    /\ \E i \in DOMAIN S : S[i] = a
    /\ \A i, j \in DOMAIN S : (S[i] = a /\ S[j] = b) => i < j

\* C25: in an execution that reaches the generator call, create_mesh_backup
\* ran earlier and after the propagation, and the calls come in the order
\* begin, modifier_apply, select, normal write, end.
C25_StepOrder ==
    (\E i \in DOMAIN steps_made : steps_made[i] = "begin") =>
        /\ made_before(steps_made, "create_mesh_backup", "begin")
        /\ \A i, j \in DOMAIN steps_made :
              (steps_made[i] = "propagate" /\ steps_made[j] = "create_mesh_backup") => i < j
        /\ \A i, j \in DOMAIN steps_made :
              (steps_made[i] = "begin" /\ steps_made[j] = "modifier_apply") => i < j
        /\ \A i, j \in DOMAIN steps_made :
              /\ (steps_made[i] = "modifier_apply"
                  /\ steps_made[j] = "select_original_faces_by_material") => i < j
              /\ (steps_made[i] = "select_original_faces_by_material"
                  /\ steps_made[j] = "set_normals_from_faces") => i < j
              /\ (steps_made[i] = "set_normals_from_faces" /\ steps_made[j] = "end") => i < j

\* C30: when a workflow operator returns CANCELLED, the snapshot of the
\* object (whether there is one, and its content) is as it was before the
\* operator ran.
C30_CancelLeavesSnapshot ==
    operator_returned("CANCELLED") => last.snapshotAfter = last.snapshotBefore

(***************************************************************************)
(* Claims about the normal synthesizer (SpecSynth).                        *)
(***************************************************************************)

\* C24: on a mesh of a single planar quad, weighted(AREA) sets the custom
\* normal of all four loops to one vector, the flat normal of the face.
C24_PlanarQuad ==
    (synth.status = "done" /\ Len(synth.mesh.faces) = 1 /\ synth.mode = "AREA") =>
        \A l \in loops_of(synth.mesh) : synth.custom[l] = synth.mesh.faces[1].normal

\* C24 witness: weighted(AREA) has run on a single quad of area 2 whose
\* loops held another normal before.
C24_Witness ==
    /\ synth.status = "done"
    /\ Len(synth.mesh.faces) = 1
    /\ synth.mode = "AREA"
    /\ synth.mesh.faces[1].area = 2
    /\ synth.original # synth.mesh.faces[1].normal

====
